---- MODULE Spec2Model ----
(***************************************************************************)
(* A model of two pieces of the repository:                                *)
(*   - torchrl/modules/planners/mcts.py : _MCTSNode, whose visit_count,    *)
(*     total_value and action_value properties are views onto one cell of  *)
(*     the parent's per-action tensors (specification SpecTree);           *)
(*   - examples/decision_transformer/online_dt.py : the pretraining loop   *)
(*     of main() (specification SpecLoop).                                 *)
(***************************************************************************)
EXTENDS Integers, Sequences, FiniteSets, TLC

\* ------------------------------------------------------------------------
\* Bounds of the model
\* ------------------------------------------------------------------------
\* how many _MCTSNode objects are constructed
MaxNodes == 2
\* largest visit count written through the visit_count setter
MaxCount == 1
\* largest cfg.optim.pretrain_gradient_steps
MaxSteps == 3
\* largest cfg.logger.pretrain_log_interval
MaxInterval == 2

\* n_actions arguments given to the constructor
NActionChoices == {2, 3}
\* prev_action arguments given to the constructor: for a parent with 2
\* actions, -3 is below the range, -1 is a negative index inside the tensor,
\* 1 is an action index and 2 is above the range (and below the 3 actions a
\* child may have itself); for a parent with 3 actions, all but -3 and -1 are
\* action indices
PrevActionChoices == {-3, -1, 1, 2}
\* values assigned to visit_count (a torch.long cell)
VisitValues == 0 .. MaxCount
\* values assigned to total_value (a torch.float32 cell; small integers are
\* exactly representable)
TotalValues == {0, 1}

\* parent=None, and the prev_action of a node built without a parent
NoParent == 0
NoAction == -99

VARIABLES
    nodes,      \* the heap of _MCTSNode objects, in construction order
    last        \* the outcome of the last property access

treeVars == <<nodes, last>>

VARIABLES
    cfg,              \* the configuration main() reads, and the logger
    pc,               \* the statement of main() to run next
    i,                \* the loop variable of the pretraining loop
    loss_vals,        \* what loss_module returned in this iteration
    transformer_loss, \* loss_log_likelihood + loss_entropy
    policy_grad,      \* norm of the gradients held by policy.parameters()
    alpha_grad,       \* whether the temperature parameter holds a gradient
    training,         \* inference_policy.training
    eval_td,          \* the last rollout, << >> while the name is unbound
    eval_reward,      \* the scaled reward of line 99, << >> while unbound
    r0,               \* << >> for None, else <<value>>
    l0,               \* << >> for None, else <<value>>
    pbar_desc,        \* what pbar.set_description last showed
    log,              \* the logger's log_scalar calls, in order
    hist              \* history: collaborator calls and what they returned

loopVars == <<cfg, pc, i, loss_vals, transformer_loss, policy_grad,
              alpha_grad, training, eval_td, eval_reward, r0, l0, pbar_desc,
              log, hist>>

vars == <<nodes, last, cfg, pc, i, loss_vals, transformer_loss, policy_grad,
          alpha_grad, training, eval_td, eval_reward, r0, l0, pbar_desc,
          log, hist>>

\* ------------------------------------------------------------------------
\* Helpers: tensors and quotients
\* ------------------------------------------------------------------------
\* torch.zeros([n])
zeros(n) == [k \in 1 .. n |-> 0]

\* tensor[idx] on a 1-d tensor of size n accepts -n <= idx < n ...
IndexOK(n, idx) == idx >= -n /\ idx < n

\* ... and a negative idx counts from the end. The result is the 0-based cell.
PyIndex(n, idx) == IF idx < 0 THEN idx + n ELSE idx

RECURSIVE GCD(_, _)
GCD(a, b) == IF b = 0 THEN a ELSE GCD(b, a % b)

Abs(a) == IF a < 0 THEN -a ELSE a

Sign(a) == IF a < 0 THEN -1 ELSE IF a = 0 THEN 0 ELSE 1

\* a / b of two tensors' cells, as the exact quotient in lowest terms (the
\* float32 result is the rounding of this quotient). Float division by zero
\* does not raise: it gives inf, -inf or nan, written here with den = 0.
TrueDiv(a, b) ==
    IF b = 0 THEN [num |-> Sign(a), den |-> 0]
    ELSE LET g == GCD(Abs(a), Abs(b))
             s == Sign(b)
         IN  [num |-> (s * a) \div g, den |-> (s * b) \div g]

\* ------------------------------------------------------------------------
\* _MCTSNode
\* ------------------------------------------------------------------------
NodeIds == 1 .. Len(nodes)

\* _MCTSNode.__init__: the fields of a fresh node. state, env and c_PUCT are
\* opaque to the statistics and left out (c_PUCT is not stored at all).
NewNode(n_actions, parent, prev_action) ==
    [ n_actions         |-> n_actions,
      parent            |-> parent,
      children          |-> << >>,
      prev_action       |-> prev_action,
      is_expanded       |-> FALSE,
      n_vlosses         |-> 0,
      child_visit_count |-> zeros(n_actions),
      child_total_value |-> zeros(n_actions),
      original_prior    |-> zeros(n_actions),
      child_prior       |-> zeros(n_actions) ]

\* A getter that answers for a node without a parent from the node's own
\* tensor (the sum of its children's visits) instead of failing.
visit_count_root_fallback(c) ==
    LET p == nodes[c].parent IN
    IF p = NoParent
    THEN [outcome |-> "ok", ret |-> nodes[c].child_visit_count[1]]
    ELSE IF ~IndexOK(nodes[p].n_actions, nodes[c].prev_action)
    THEN [outcome |-> "IndexError", ret |-> 0]
    ELSE [outcome |-> "ok",
          ret |-> nodes[p].child_visit_count[
                      PyIndex(nodes[p].n_actions, nodes[c].prev_action) + 1]]

\* self.parent._child_visit_count[self.prev_action], read
visit_count(c) ==
    LET p == nodes[c].parent IN
    IF p = NoParent
    THEN [outcome |-> "AttributeError", ret |-> 0]
    ELSE IF ~IndexOK(nodes[p].n_actions, nodes[c].prev_action)
    THEN [outcome |-> "IndexError", ret |-> 0]
    ELSE [outcome |-> "ok",
          ret |-> nodes[p].child_visit_count[
                      PyIndex(nodes[p].n_actions, nodes[c].prev_action) + 1]]

\* A setter that forgets `.parent` and writes the node's own tensor.
visit_count_setter_own(c, value) ==
    IF nodes[c].parent = NoParent
    THEN [outcome |-> "AttributeError", heap |-> nodes]
    ELSE IF ~IndexOK(nodes[c].n_actions, nodes[c].prev_action)
    THEN [outcome |-> "IndexError", heap |-> nodes]
    ELSE [outcome |-> "ok",
          heap |-> [nodes EXCEPT ![c].child_visit_count[
                      PyIndex(nodes[c].n_actions, nodes[c].prev_action) + 1]
                          = value]]

\* self.parent._child_visit_count[self.prev_action] = value
visit_count_setter(c, value) ==
    LET p == nodes[c].parent IN
    IF p = NoParent
    THEN [outcome |-> "AttributeError", heap |-> nodes]
    ELSE IF ~IndexOK(nodes[p].n_actions, nodes[c].prev_action)
    THEN [outcome |-> "IndexError", heap |-> nodes]
    ELSE [outcome |-> "ok",
          heap |-> [nodes EXCEPT ![p].child_visit_count[
                      PyIndex(nodes[p].n_actions, nodes[c].prev_action) + 1]
                          = value]]

\* self.parent._child_total_value[self.prev_action], read
total_value(c) ==
    LET p == nodes[c].parent IN
    IF p = NoParent
    THEN [outcome |-> "AttributeError", ret |-> 0]
    ELSE IF ~IndexOK(nodes[p].n_actions, nodes[c].prev_action)
    THEN [outcome |-> "IndexError", ret |-> 0]
    ELSE [outcome |-> "ok",
          ret |-> nodes[p].child_total_value[
                      PyIndex(nodes[p].n_actions, nodes[c].prev_action) + 1]]

\* self.parent._child_total_value[self.prev_action] = value
total_value_setter(c, value) ==
    LET p == nodes[c].parent IN
    IF p = NoParent
    THEN [outcome |-> "AttributeError", heap |-> nodes]
    ELSE IF ~IndexOK(nodes[p].n_actions, nodes[c].prev_action)
    THEN [outcome |-> "IndexError", heap |-> nodes]
    ELSE [outcome |-> "ok",
          heap |-> [nodes EXCEPT ![p].child_total_value[
                      PyIndex(nodes[p].n_actions, nodes[c].prev_action) + 1]
                          = value]]

\* The mean without the "+ 1": total_value / visit_count.
action_value_no_plus_one(c) ==
    LET tv == total_value(c)
        vc == visit_count(c)
    IN  IF tv.outcome # "ok" THEN [outcome |-> tv.outcome, ret |-> 0]
        ELSE IF vc.outcome # "ok" THEN [outcome |-> vc.outcome, ret |-> 0]
        ELSE [outcome |-> "ok", ret |-> TrueDiv(tv.ret, vc.ret)]

\* self.total_value / (1 + self.visit_count): total_value is evaluated
\* first, then visit_count; the first one that raises ends the evaluation.
action_value(c) ==
    LET tv == total_value(c)
        vc == visit_count(c)
    IN  IF tv.outcome # "ok" THEN [outcome |-> tv.outcome, ret |-> 0]
        ELSE IF vc.outcome # "ok" THEN [outcome |-> vc.outcome, ret |-> 0]
        ELSE [outcome |-> "ok", ret |-> TrueDiv(tv.ret, 1 + vc.ret)]

\* ------------------------------------------------------------------------
\* Operations on the tree
\* ------------------------------------------------------------------------
StatFields == {"child_visit_count", "child_total_value",
               "original_prior", "child_prior"}

\* what differs between two heaps: <<n, f, j>> for cell j of tensor f of
\* node n, <<n, f, 0>> for another field f of node n, <<0, "len", 0>> when
\* a node was added
Changed(old, new) ==
    IF new = old THEN {}
    ELSE (IF Len(new) # Len(old) THEN {<<0, "len", 0>>} ELSE {})
         \cup UNION {
           IF new[n] = old[n] THEN {}
           ELSE UNION {
                  IF new[n][f] = old[n][f] THEN {}
                  ELSE IF f \in StatFields
                  THEN {<<n, f, j>> : j \in {k \in DOMAIN old[n][f] :
                                                new[n][f][k] # old[n][f][k]}}
                  ELSE {<<n, f, 0>>}
                : f \in DOMAIN old[n] }
           : n \in DOMAIN old }

\* the record kept of one operation: the node it was applied to, the value
\* assigned, how it ended, the value returned and what it changed
Access(op, c, arg, outcome, ret, changed) ==
    [op |-> op, node |-> c, arg |-> arg, outcome |-> outcome, ret |-> ret,
     changed |-> changed]

NoAccess == Access("none", 0, 0, "ok", 0, {})

\* _MCTSNode(state, n_actions, env, parent, prev_action)
Construct(n_actions, parent, prev_action) ==
    /\ Len(nodes) < MaxNodes
    /\ nodes' = Append(nodes, NewNode(n_actions, parent, prev_action))
    /\ last' = Access("init", Len(nodes) + 1, 0, "ok", 0,
                      Changed(nodes, nodes'))
    /\ UNCHANGED loopVars

\* x = c.visit_count
GetVisitCount(c) ==
    /\ UNCHANGED nodes
    /\ last' = Access("get_visit_count", c, 0, visit_count(c).outcome,
                      visit_count(c).ret, Changed(nodes, nodes'))
    /\ UNCHANGED loopVars

\* c.visit_count = x
SetVisitCount(c, x) ==
    /\ nodes' = visit_count_setter(c, x).heap
    /\ last' = Access("set_visit_count", c, x,
                      visit_count_setter(c, x).outcome, 0,
                      Changed(nodes, nodes'))
    /\ UNCHANGED loopVars

\* x = c.total_value
GetTotalValue(c) ==
    /\ UNCHANGED nodes
    /\ last' = Access("get_total_value", c, 0, total_value(c).outcome,
                      total_value(c).ret, Changed(nodes, nodes'))
    /\ UNCHANGED loopVars

\* c.total_value = x
SetTotalValue(c, x) ==
    /\ nodes' = total_value_setter(c, x).heap
    /\ last' = Access("set_total_value", c, x,
                      total_value_setter(c, x).outcome, 0,
                      Changed(nodes, nodes'))
    /\ UNCHANGED loopVars

\* x = c.action_value
GetActionValue(c) ==
    /\ UNCHANGED nodes
    /\ last' = Access("get_action_value", c, 0, action_value(c).outcome,
                      action_value(c).ret, Changed(nodes, nodes'))
    /\ UNCHANGED loopVars

\* ------------------------------------------------------------------------
\* The pretraining loop of main()
\* ------------------------------------------------------------------------
\* what loss_module may return: the named loss components of one batch
LossChoices ==
    { [loss_log_likelihood |-> 1, loss_entropy |-> 1, loss_alpha |-> 0],
      [loss_log_likelihood |-> 2, loss_entropy |-> 1, loss_alpha |-> 1] }
\* the gradient norm transformer_loss.backward() may leave on the policy
GradNormChoices == {1, 3}
\* cfg.optim.clip_grad
ClipGradChoices == {2}
\* the mean over the batch of the summed rewards of a rollout
RewardChoices == {2, 4}
\* cfg.env.reward_scaling
ScalingChoices == {1, 2}

Configs ==
    [ pretrain_gradient_steps : 0 .. MaxSteps,
      pretrain_log_interval   : 1 .. MaxInterval,
      has_logger              : BOOLEAN,
      reward_scaling          : ScalingChoices,
      clip_grad               : ClipGradChoices ]

\* the calls main() makes on its collaborators
Events == {"sample", "loss", "t_zero", "clip", "t_backward", "t_step",
           "a_zero", "a_backward", "a_step", "sched", "eval", "rollout",
           "train", "log_scalar"}

Min(a, b) == IF a <= b THEN a ELSE b

\* the history after one more call of collaborator ev
Called(h, ev) ==
    [h EXCEPT !.trace = Append(@, ev), !.calls[ev] = @ + 1]

\* eval_td["next", "reward"].sum(1).mean().item() / reward_scaling
ScaledReward(td) == TrueDiv(td.reward, cfg.reward_scaling)

\* the state main() is in when it reaches line 62 under configuration c
LoopStart(c) ==
    /\ cfg = c
    /\ pc = "for"
    /\ i = 0
    /\ loss_vals = [loss_log_likelihood |-> 0, loss_entropy |-> 0,
                    loss_alpha |-> 0]
    /\ transformer_loss = 0
    /\ policy_grad = 0
    /\ alpha_grad = FALSE
    /\ training = TRUE
    /\ eval_td = << >>
    /\ eval_reward = << >>
    /\ r0 = << >>
    /\ l0 = << >>
    /\ pbar_desc = << >>
    /\ log = << >>
    /\ hist = [ calls    |-> [e \in Events |-> 0],
                trace    |-> << >>,
                rollouts |-> {},
                iter0    |-> [loss |-> << >>, reward |-> << >>],
                stepped  |-> << >> ]

\* for i in range(pretrain_gradient_steps): i counts the iterations begun
\* so far and is the index of the one to begin; the history's trace is that
\* of the current iteration.
LoopHead ==
    /\ pc = "for"
    /\ IF i < cfg.pretrain_gradient_steps
       THEN /\ pc' = "sample"
            /\ hist' = [hist EXCEPT !.trace = << >>]
       ELSE /\ pc' = "done"
            /\ UNCHANGED hist
    /\ UNCHANGED <<nodes, last, cfg, i, loss_vals, transformer_loss,
                   policy_grad, alpha_grad, training, eval_td, eval_reward,
                   r0, l0, pbar_desc, log>>

\* pbar.update(i); data = offline_buffer.sample()
Sample ==
    /\ pc = "sample"
    /\ hist' = Called(hist, "sample")
    /\ pc' = "loss"
    /\ UNCHANGED <<nodes, last, cfg, i, loss_vals, transformer_loss,
                   policy_grad, alpha_grad, training, eval_td, eval_reward,
                   r0, l0, pbar_desc, log>>

\* loss_vals = loss_module(data); transformer_loss = ... + ...
ComputeLoss ==
    /\ pc = "loss"
    /\ \E lv \in LossChoices :
         /\ loss_vals' = lv
         /\ transformer_loss' = lv.loss_log_likelihood + lv.loss_entropy
         /\ hist' = [Called(hist, "loss") EXCEPT
                        !.iter0.loss =
                            IF i = 0
                            THEN <<lv.loss_log_likelihood + lv.loss_entropy>>
                            ELSE @]
    /\ pc' = "t_zero"
    /\ UNCHANGED <<nodes, last, cfg, i, policy_grad, alpha_grad, training,
                   eval_td, eval_reward, r0, l0, pbar_desc, log>>

\* transformer_optim.zero_grad()
TransformerZeroGrad ==
    /\ pc = "t_zero"
    /\ policy_grad' = 0
    /\ hist' = Called(hist, "t_zero")
    /\ pc' = "clip"
    /\ UNCHANGED <<nodes, last, cfg, i, loss_vals, transformer_loss,
                   alpha_grad, training, eval_td, eval_reward, r0, l0,
                   pbar_desc, log>>

\* torch.nn.utils.clip_grad_norm_(policy.parameters(), clip_grad): the
\* gradients now held are scaled down to norm clip_grad if above it
ClipGradNorm ==
    /\ pc = "clip"
    /\ policy_grad' = Min(policy_grad, cfg.clip_grad)
    /\ hist' = Called(hist, "clip")
    /\ pc' = "t_backward"
    /\ UNCHANGED <<nodes, last, cfg, i, loss_vals, transformer_loss,
                   alpha_grad, training, eval_td, eval_reward, r0, l0,
                   pbar_desc, log>>

\* transformer_loss.backward(): adds the loss's gradient to the held one
TransformerBackward ==
    /\ pc = "t_backward"
    /\ \E g \in GradNormChoices : policy_grad' = policy_grad + g
    /\ hist' = Called(hist, "t_backward")
    /\ pc' = "t_step"
    /\ UNCHANGED <<nodes, last, cfg, i, loss_vals, transformer_loss,
                   alpha_grad, training, eval_td, eval_reward, r0, l0,
                   pbar_desc, log>>

\* transformer_optim.step(): consumes the gradients held
TransformerStep ==
    /\ pc = "t_step"
    /\ hist' = [Called(hist, "t_step") EXCEPT !.stepped = <<policy_grad>>]
    /\ pc' = "a_zero"
    /\ UNCHANGED <<nodes, last, cfg, i, loss_vals, transformer_loss,
                   policy_grad, alpha_grad, training, eval_td, eval_reward,
                   r0, l0, pbar_desc, log>>

\* temperature_optim.zero_grad()
TemperatureZeroGrad ==
    /\ pc = "a_zero"
    /\ alpha_grad' = FALSE
    /\ hist' = Called(hist, "a_zero")
    /\ pc' = "a_backward"
    /\ UNCHANGED <<nodes, last, cfg, i, loss_vals, transformer_loss,
                   policy_grad, training, eval_td, eval_reward, r0, l0,
                   pbar_desc, log>>

\* temperature_loss.backward()
TemperatureBackward ==
    /\ pc = "a_backward"
    /\ alpha_grad' = TRUE
    /\ hist' = Called(hist, "a_backward")
    /\ pc' = "a_step"
    /\ UNCHANGED <<nodes, last, cfg, i, loss_vals, transformer_loss,
                   policy_grad, training, eval_td, eval_reward, r0, l0,
                   pbar_desc, log>>

\* temperature_optim.step()
TemperatureStep ==
    /\ pc = "a_step"
    /\ hist' = Called(hist, "a_step")
    /\ pc' = "sched"
    /\ UNCHANGED <<nodes, last, cfg, i, loss_vals, transformer_loss,
                   policy_grad, alpha_grad, training, eval_td, eval_reward,
                   r0, l0, pbar_desc, log>>

\* A scheduler stepped only on the logging cadence.
SchedulerStepOnCadence ==
    /\ pc = "sched"
    /\ hist' = IF i % cfg.pretrain_log_interval = 0
               THEN Called(hist, "sched") ELSE hist
    /\ pc' = "eval"
    /\ UNCHANGED <<nodes, last, cfg, i, loss_vals, transformer_loss,
                   policy_grad, alpha_grad, training, eval_td, eval_reward,
                   r0, l0, pbar_desc, log>>

\* scheduler.step()
SchedulerStep ==
    /\ pc = "sched"
    /\ hist' = Called(hist, "sched")
    /\ pc' = "eval"
    /\ UNCHANGED <<nodes, last, cfg, i, loss_vals, transformer_loss,
                   policy_grad, alpha_grad, training, eval_td, eval_reward,
                   r0, l0, pbar_desc, log>>

\* with torch.no_grad(), set_exploration_type(MODE): inference_policy.eval()
EnterEval ==
    /\ pc = "eval"
    /\ training' = FALSE
    /\ hist' = Called(hist, "eval")
    /\ pc' = "rollout"
    /\ UNCHANGED <<nodes, last, cfg, i, loss_vals, transformer_loss,
                   policy_grad, alpha_grad, eval_td, eval_reward, r0, l0,
                   pbar_desc, log>>

\* if i % pretrain_log_interval == 0:
\*     eval_td = test_env.rollout(...); inference_policy.train()
Evaluate ==
    /\ pc = "rollout"
    /\ IF i % cfg.pretrain_log_interval = 0
       THEN \E R \in RewardChoices :
              /\ eval_td' = << [reward |-> R, iter |-> i] >>
              /\ training' = TRUE
              /\ hist' = [Called(Called(hist, "rollout"), "train") EXCEPT
                             !.rollouts = @ \cup {i},
                             !.iter0.reward = IF i = 0 THEN <<R>> ELSE @]
       ELSE UNCHANGED <<eval_td, training, hist>>
    /\ pc' = "baseline"
    /\ UNCHANGED <<nodes, last, cfg, i, loss_vals, transformer_loss,
                   policy_grad, alpha_grad, eval_reward, r0, l0, pbar_desc,
                   log>>

\* Baselines taken again in every iteration (no `is None` test).
CaptureBaselinesEveryIteration ==
    /\ pc = "baseline"
    /\ eval_td # << >>
    /\ r0' = << ScaledReward(eval_td[1]) >>
    /\ l0' = << transformer_loss >>
    /\ pc' = "log"
    /\ UNCHANGED <<nodes, last, cfg, i, loss_vals, transformer_loss,
                   policy_grad, alpha_grad, training, eval_td, eval_reward,
                   pbar_desc, log, hist>>

\* if r0 is None: r0 = ... ; if l0 is None: l0 = transformer_loss.item()
\* (reading eval_td while the name is unbound raises)
CaptureBaselines ==
    /\ pc = "baseline"
    /\ IF r0 = << >> /\ eval_td = << >>
       THEN /\ pc' = "raised"
            /\ UNCHANGED <<r0, l0>>
       ELSE /\ r0' = IF r0 = << >> THEN << ScaledReward(eval_td[1]) >> ELSE r0
            /\ l0' = IF l0 = << >> THEN << transformer_loss >> ELSE l0
            /\ pc' = "log"
    /\ UNCHANGED <<nodes, last, cfg, i, loss_vals, transformer_loss,
                   policy_grad, alpha_grad, training, eval_td, eval_reward,
                   pbar_desc, log, hist>>

\* one logger.log_scalar(key, value, step) call; `src` is the iteration
\* whose collaborator call produced the value
LogEntry(key, value, step, src) ==
    [key |-> key, value |-> value, step |-> step, src |-> src]

\* eval_reward = ... ; if logger is not None: log every loss component and
\* the evaluation reward at step i
LogScalars ==
    /\ pc = "log"
    /\ eval_reward' = << ScaledReward(eval_td[1]) >>
    /\ IF cfg.has_logger
       THEN /\ log' = log \o
                << LogEntry("loss_log_likelihood",
                            loss_vals.loss_log_likelihood, i, i),
                   LogEntry("loss_entropy", loss_vals.loss_entropy, i, i),
                   LogEntry("loss_alpha", loss_vals.loss_alpha, i, i),
                   LogEntry("evaluation reward", ScaledReward(eval_td[1]),
                            i, eval_td[1].iter) >>
            /\ hist' = Called(Called(Called(Called(hist, "log_scalar"),
                           "log_scalar"), "log_scalar"), "log_scalar")
       ELSE UNCHANGED <<log, hist>>
    /\ pc' = "display"
    /\ UNCHANGED <<nodes, last, cfg, i, loss_vals, transformer_loss,
                   policy_grad, alpha_grad, training, eval_td, r0, l0,
                   pbar_desc>>

\* pbar.set_description(...), the end of the loop body
Display ==
    /\ pc = "display"
    /\ pbar_desc' = << [ loss        |-> transformer_loss,
                         init_loss   |-> l0[1],
                         reward      |-> eval_reward[1],
                         init_reward |-> r0[1] ] >>
    /\ i' = i + 1
    /\ pc' = "for"
    /\ UNCHANGED <<nodes, last, cfg, loss_vals, transformer_loss,
                   policy_grad, alpha_grad, training, eval_td, eval_reward,
                   r0, l0, log, hist>>

\* the statements that call a collaborator, which may raise; main() catches
\* nothing, so the exception ends the run where it stands
MayRaise ==
    \/ pc \in {"sample", "loss", "t_zero", "clip", "t_backward", "t_step",
               "a_zero", "a_backward", "a_step", "sched", "eval"}
    \/ pc = "rollout" /\ i % cfg.pretrain_log_interval = 0
    \/ pc = "log" /\ cfg.has_logger

CollaboratorRaises ==
    /\ MayRaise
    /\ pc' = "raised"
    /\ UNCHANGED <<nodes, last, cfg, i, loss_vals, transformer_loss,
                   policy_grad, alpha_grad, training, eval_td, eval_reward,
                   r0, l0, pbar_desc, log, hist>>

\* one statement of main() that completes
Step ==
    \/ LoopHead
    \/ Sample
    \/ ComputeLoss
    \/ TransformerZeroGrad
    \/ ClipGradNorm
    \/ TransformerBackward
    \/ TransformerStep
    \/ TemperatureZeroGrad
    \/ TemperatureBackward
    \/ TemperatureStep
    \/ SchedulerStep
    \/ EnterEval
    \/ Evaluate
    \/ CaptureBaselines
    \/ LogScalars
    \/ Display

\* ------------------------------------------------------------------------
\* The two specifications
\* ------------------------------------------------------------------------
\* the configuration under which the loop stands still while the tree runs
IdleConfig ==
    [ pretrain_gradient_steps |-> 0, pretrain_log_interval |-> 1,
      has_logger |-> FALSE, reward_scaling |-> 1, clip_grad |-> 2 ]

InitTree ==
    /\ nodes = << >>
    /\ last = NoAccess
    /\ LoopStart(IdleConfig)

NextTree ==
    \/ \E n \in NActionChoices : Construct(n, NoParent, NoAction)
    \/ \E n \in NActionChoices, p \in NodeIds, a \in PrevActionChoices :
          Construct(n, p, a)
    \/ \E c \in NodeIds : GetVisitCount(c)
    \/ \E c \in NodeIds, x \in VisitValues : SetVisitCount(c, x)
    \/ \E c \in NodeIds : GetTotalValue(c)
    \/ \E c \in NodeIds, x \in TotalValues : SetTotalValue(c, x)
    \/ \E c \in NodeIds : GetActionValue(c)

SpecTree == InitTree /\ [][NextTree]_vars

InitLoop ==
    /\ nodes = << >>
    /\ last = NoAccess
    /\ \E c \in Configs : LoopStart(c)

NextLoop ==
    \/ Step
    \/ CollaboratorRaises

SpecLoop == InitLoop /\ [][NextLoop]_vars

\* ------------------------------------------------------------------------
\* Properties of the tree
\* ------------------------------------------------------------------------
IsChild(c) == nodes[c].parent # NoParent

\* the action slots of node p: 0 .. n_actions - 1
ActionSlots(p) == 0 .. (nodes[p].n_actions - 1)

\* the 1-based position, in the parent's tensors, of the cell that the
\* subscript [c.prev_action] denotes
CellOf(c) ==
    IF nodes[c].prev_action >= 0
    THEN nodes[c].prev_action + 1
    ELSE nodes[nodes[c].parent].n_actions + nodes[c].prev_action + 1

\* C1: an assignment c.visit_count = x on a non-root node c that completes
\* changes exactly the cell [c.prev_action] of the parent's visit-count
\* tensor, which becomes x: no other cell of that tensor, no cell of the
\* parent's other tensors and no tensor of any other node (c's own included)
\* changes, and c.visit_count then reads x. The same holds of total_value
\* and the parent's total-value tensor.
C1_SetterWritesOneParentCell ==
    \A c \in NodeIds :
      /\ ( /\ last.op = "set_visit_count" /\ last.node = c
           /\ last.outcome = "ok" )
         => /\ IsChild(c)
            /\ CellOf(c) \in DOMAIN nodes[nodes[c].parent].child_visit_count
            /\ nodes[nodes[c].parent].child_visit_count[CellOf(c)] = last.arg
            /\ last.changed
                 \subseteq {<<nodes[c].parent, "child_visit_count", CellOf(c)>>}
            /\ visit_count(c) = [outcome |-> "ok", ret |-> last.arg]
      /\ ( /\ last.op = "set_total_value" /\ last.node = c
           /\ last.outcome = "ok" )
         => /\ IsChild(c)
            /\ CellOf(c) \in DOMAIN nodes[nodes[c].parent].child_total_value
            /\ nodes[nodes[c].parent].child_total_value[CellOf(c)] = last.arg
            /\ last.changed
                 \subseteq {<<nodes[c].parent, "child_total_value", CellOf(c)>>}
            /\ total_value(c) = [outcome |-> "ok", ret |-> last.arg]

\* C1 witness: total_value = 1 has just been assigned through a child whose
\* visit_count was set to 1 before; both land in one slot of the parent and
\* the parent's other cells are still zero.
C1_Witness ==
    /\ last.op = "set_total_value" /\ last.outcome = "ok" /\ last.arg = 1
    /\ last.changed # {}
    /\ IsChild(last.node)
    /\ LET p == nodes[last.node].parent
           k == CellOf(last.node)
       IN  /\ nodes[p].child_visit_count[k] = 1
           /\ nodes[p].child_total_value[k] = 1
           /\ \A j \in DOMAIN nodes[p].child_visit_count :
                 j # k => /\ nodes[p].child_visit_count[j] = 0
                          /\ nodes[p].child_total_value[j] = 0

\* C2: for every non-root node c whose prev_action addresses a cell of the
\* parent, action_value is defined and is the quotient of the parent's
\* current total-value cell by one plus the parent's current visit-count
\* cell (so also when the visit count is 0); what a read of c.action_value
\* returned is that quotient. With a 3-action parent holding visit counts
\* [0,1,0] and total values [0,1,0], the action-1 child's action_value is 1/2.
C2_ActionValueIsMean ==
    /\ \A c \in NodeIds :
          (IsChild(c) /\ IndexOK(nodes[nodes[c].parent].n_actions,
                                 nodes[c].prev_action))
          => LET p  == nodes[c].parent
                 tv == nodes[p].child_total_value[CellOf(c)]
                 vc == nodes[p].child_visit_count[CellOf(c)]
                 q  == action_value(c)
             IN  /\ q.outcome = "ok"
                 /\ q.ret.den > 0
                 /\ q.ret.num * (1 + vc) = tv * q.ret.den
                 /\ (last.op = "get_action_value" /\ last.node = c)
                        => /\ last.outcome = "ok"
                           /\ last.ret.den > 0
                           /\ last.ret.num * (1 + vc) = tv * last.ret.den
                 /\ ( /\ nodes[p].n_actions = 3 /\ nodes[c].prev_action = 1
                      /\ nodes[p].child_visit_count = <<0, 1, 0>>
                      /\ nodes[p].child_total_value = <<0, 1, 0>> )
                        => q.ret = [num |-> 1, den |-> 2]

\* C2 witness: the end-to-end scenario has been played and action_value read.
C2_Witness ==
    /\ last.op = "get_action_value" /\ last.outcome = "ok"
    /\ last.ret = [num |-> 1, den |-> 2]
    /\ IsChild(last.node)
    /\ nodes[last.node].prev_action = 1
    /\ nodes[nodes[last.node].parent].n_actions = 3
    /\ nodes[nodes[last.node].parent].child_visit_count = <<0, 1, 0>>
    /\ nodes[nodes[last.node].parent].child_total_value = <<0, 1, 0>>

AccessorOps == {"get_visit_count", "set_visit_count", "get_total_value",
                "set_total_value", "get_action_value"}

\* C3: reading or writing visit_count, total_value or action_value on a node
\* without a parent fails (with the AttributeError of None) and changes no
\* field of any node; the node's own tensors do not answer in its place.
C3_RootAccessFails ==
    \A c \in NodeIds :
      (last.op \in AccessorOps /\ last.node = c /\ ~IsChild(c))
      => /\ last.outcome = "AttributeError"
         /\ last.changed = {}

\* C3 witness: a root that has a child was asked for its action_value, and
\* the access failed.
C3_Witness ==
    /\ last.op = "get_action_value" /\ last.outcome = "AttributeError"
    /\ ~IsChild(last.node)
    /\ \E c \in NodeIds : nodes[c].parent = last.node

\* C6: two distinct children of one parent never have the same prev_action,
\* and every child that addresses a slot of its parent is the node the
\* parent's children mapping records for that action.
C6_SlotsOneToOne ==
    /\ \A c1, c2 \in NodeIds :
          (c1 # c2 /\ IsChild(c1) /\ nodes[c1].parent = nodes[c2].parent)
          => nodes[c1].prev_action # nodes[c2].prev_action
    /\ \A c \in NodeIds :
          (IsChild(c) /\ IndexOK(nodes[nodes[c].parent].n_actions,
                                 nodes[c].prev_action))
          => /\ nodes[c].prev_action
                    \in DOMAIN nodes[nodes[c].parent].children
             /\ nodes[nodes[c].parent].children[nodes[c].prev_action] = c

\* C7: on a non-root node whose prev_action is not one of the parent's action
\* slots 0 .. n_actions - 1, reading or writing visit_count or total_value
\* fails with an IndexError and changes no cell.
C7_OutOfRangeFails ==
    \A c \in NodeIds :
      ( /\ last.op \in AccessorOps \ {"get_action_value"}
        /\ last.node = c /\ IsChild(c)
        /\ nodes[c].prev_action \notin ActionSlots(nodes[c].parent) )
      => /\ last.outcome = "IndexError"
         /\ last.changed = {}

\* ------------------------------------------------------------------------
\* Properties of the pretraining loop
\* ------------------------------------------------------------------------
IsPrefix(s, t) == Len(s) <= Len(t) /\ s = SubSeq(t, 1, Len(s))

\* how often event e occurs in sequence t
Count(e, t) == Cardinality({k \in DOMAIN t : t[k] = e})

\* iteration 0 has run its baseline statements (lines 94-97)
BaselinesTaken == i >= 1 \/ pc \in {"log", "display"}

\* iteration 0 has not reached its baseline statements yet
BeforeBaselines ==
    i = 0 /\ pc \in {"for", "sample", "loss", "t_zero", "clip", "t_backward",
                     "t_step", "a_zero", "a_backward", "a_step", "sched",
                     "eval", "rollout", "baseline"}

\* C4: with pretrain_gradient_steps >= 1 and pretrain_log_interval >= 1, l0
\* and r0 are None until iteration 0 assigns them, l0 to iteration 0's
\* transformer loss and r0 to the scaled reward of the rollout run in
\* iteration 0, and no later iteration changes them: at the end of every
\* iteration the bar shows these two values as `init`.
C4_BaselinesAreIterationZero ==
    (cfg.pretrain_gradient_steps >= 1 /\ cfg.pretrain_log_interval >= 1)
    => /\ BeforeBaselines => (l0 = << >> /\ r0 = << >>)
       /\ BaselinesTaken =>
            /\ hist.iter0.loss # << >> /\ hist.iter0.reward # << >>
            /\ l0 = hist.iter0.loss
            /\ r0 = << TrueDiv(hist.iter0.reward[1], cfg.reward_scaling) >>
       /\ pbar_desc # << >> =>
            /\ << pbar_desc[1].init_loss >> = hist.iter0.loss
            /\ pbar_desc[1].init_reward
                   = TrueDiv(hist.iter0.reward[1], cfg.reward_scaling)

\* C4 witness: the third iteration has ended with a loss and a reward that
\* differ from the ones shown as `init`.
C4_Witness ==
    /\ pc = "for" /\ i = 3
    /\ pbar_desc # << >>
    /\ pbar_desc[1].loss # pbar_desc[1].init_loss
    /\ pbar_desc[1].reward # pbar_desc[1].init_reward
    /\ << pbar_desc[1].init_loss >> = hist.iter0.loss

IsTransformerUpdate(e) == e \in {"t_zero", "t_backward", "clip", "t_step"}

\* C5: in every iteration the transformer update runs zero_grad, backward,
\* clip_grad_norm_, step in this order, and the gradients a transformer
\* optimizer step consumes never have norm above clip_grad.
C5_StepConsumesClippedGradients ==
    /\ hist.stepped # << >> => hist.stepped[1] <= cfg.clip_grad
    /\ IsPrefix(SelectSeq(hist.trace, IsTransformerUpdate),
                <<"t_zero", "t_backward", "clip", "t_step">>)

\* iteration j is past its `if i % pretrain_log_interval == 0` statement
PastRollout(j) == j < i \/ (j = i /\ pc \in {"baseline", "log", "display"})

\* C8: a rollout is run in iteration j exactly if j % pretrain_log_interval
\* = 0; every "evaluation reward" entry of the log is on that cadence and
\* carries the reward of a rollout run in the iteration it is keyed by; and
\* without a logger there is no log_scalar call.
C8_EvaluationRewardLoggedOnCadence ==
    /\ \A j \in hist.rollouts : j % cfg.pretrain_log_interval = 0
    /\ \A j \in 0 .. i :
          (PastRollout(j) /\ j % cfg.pretrain_log_interval = 0)
              => j \in hist.rollouts
    /\ \A k \in DOMAIN log :
          log[k].key = "evaluation reward"
              => /\ log[k].step % cfg.pretrain_log_interval = 0
                 /\ log[k].src = log[k].step
    /\ ~cfg.has_logger => (log = << >> /\ hist.calls["log_scalar"] = 0)

CoreOrder == <<"sample", "loss", "t_zero", "t_step", "a_zero", "a_step",
               "sched">>

IsCore(e) == e \in {"sample", "loss", "t_zero", "t_step", "a_zero",
                    "a_step", "sched"}

\* C9: the loop ends after exactly pretrain_gradient_steps iterations
\* unless a collaborator raises; within an iteration sample, the loss, the
\* transformer zero_grad and step, the temperature zero_grad and step and
\* scheduler.step() are each called once, in this order; after iteration i's
\* scheduler statement the scheduler has been stepped i + 1 times, whatever
\* the logging cadence; a statement that completes is always possible until
\* the loop is done, and after a raise nothing more is executed.
C9_LoopRunsEachStepOncePerIteration ==
    LET inIteration == pc \notin {"for", "done"}
        core == SelectSeq(hist.trace, IsCore)
    IN  /\ i <= cfg.pretrain_gradient_steps
        /\ pc = "done" => i = cfg.pretrain_gradient_steps
        /\ IsPrefix(core, CoreOrder)
        /\ \A e \in {CoreOrder[k] : k \in DOMAIN CoreOrder} :
              hist.calls[e]
                  = i + (IF inIteration THEN Count(e, hist.trace) ELSE 0)
        /\ pc \in {"eval", "rollout", "baseline", "log", "display"}
              => (core = CoreOrder /\ hist.calls["sched"] = i + 1)
        /\ pc \notin {"done", "raised"} => ENABLED Step
        /\ pc \in {"done", "raised"} => ~ENABLED NextLoop

\* C9 witness: three iterations ran to the end under a logging interval of
\* 2, with the scheduler stepped in each.
C9_Witness ==
    /\ pc = "done" /\ i = 3
    /\ cfg.pretrain_log_interval = 2
    /\ hist.calls["sched"] = 3
    /\ hist.calls["rollout"] = 2

\* C10: from iteration 1 on, the inference policy is in train mode whenever
\* the loss is computed and the optimizers are stepped, and it is back in
\* train mode when an iteration's evaluation block has ended.
C10_TrainModeOutsideEvaluation ==
    /\ ( i >= 1 /\ pc \in {"t_zero", "clip", "t_backward", "t_step",
                          "a_zero", "a_backward", "a_step", "sched"} )
           => training
    /\ pc \in {"baseline", "log", "display"} => training

====
